---- MODULE Spec2Model ----
(***************************************************************************)
(* YouTubeAudioExtractor: the extraction workflow of app/core.py, its      *)
(* duplicate inside the HTTP service app/main.py, and the front-ends that  *)
(* call them (app/cli.py, app/mcp_server.py, the module-level function).   *)
(*                                                                         *)
(* Text (titles, formats, file names) is a sequence of one-character       *)
(* strings, so that strip / lower / re.sub / slicing are computed.         *)
(* Exception messages are strings built with \o.                           *)
(***************************************************************************)
EXTENDS Integers, Sequences, FiniteSets, TLC

\* ------------------------------------------------------------------ bounds
\* number of invocations that may run concurrently
NumProcs == 2

\* longest name, of all names over NameChars, handed to sanitize_filename
MaxNameLen == 3

\* longest value, of all values over FormatChars, handed to normalize_audio_format
MaxFmtLen == 4

\* ------------------------------------------------------------- characters
LowerSeq == <<"a","b","c","d","e","f","g","h","i","j","k","l","m",
              "n","o","p","q","r","s","t","u","v","w","x","y","z">>

UpperSeq == <<"A","B","C","D","E","F","G","H","I","J","K","L","M",
              "N","O","P","Q","R","S","T","U","V","W","X","Y","Z">>

Digits == {"0","1","2","3","4","5","6","7","8","9"}

Range(s) == {s[i] : i \in DOMAIN s}

\* str.strip() with no argument and the regex class \s
Whitespace == {" ", "\t", "\n"}

\* the complement of the class [^a-zA-Z0-9 \-_\.\(\)\[\]]
AllowedChars == Range(LowerSeq) \cup Range(UpperSeq) \cup Digits
                  \cup {" ", "-", "_", ".", "(", ")", "[", "]"}

\* the argument of name.strip(" .-_")
TrimChars == {" ", ".", "-", "_"}

\* the positions of s whose character is not in cs
Kept(s, cs) == {i \in DOMAIN s : s[i] \notin cs}

First(S) == CHOOSE i \in S : \A j \in S : i <= j

Last(S) == CHOOSE i \in S : \A j \in S : j <= i

\* str.lstrip(chars), str.rstrip(chars)
LStrip(s, cs) == IF Kept(s, cs) = {} THEN <<>> ELSE SubSeq(s, First(Kept(s, cs)), Len(s))

RStrip(s, cs) == IF Kept(s, cs) = {} THEN <<>> ELSE SubSeq(s, 1, Last(Kept(s, cs)))

\* str.strip(chars)
Strip(s, cs) == RStrip(LStrip(s, cs), cs)

IsKeptMark(c) == c # "<drop>"

\* re.sub(r"\s+", " ", s): the first character of a whitespace run becomes a
\* space, the rest of the run goes
CollapseWhitespace(s) ==
  SelectSeq([i \in DOMAIN s |->
               IF s[i] \notin Whitespace THEN s[i]
               ELSE IF i = 1 \/ s[i - 1] \notin Whitespace THEN " " ELSE "<drop>"],
            IsKeptMark)

\* re.sub(r"[^a-zA-Z0-9 \-_\.\(\)\[\]]+", "", s)
IsAllowedChar(c) == c \in AllowedChars

RemoveDisallowed(s) == SelectSeq(s, IsAllowedChar)

\* s[:n]
Take(s, n) == IF Len(s) <= n THEN s ELSE SubSeq(s, 1, n)

LowerChar(c) ==
  IF \E i \in DOMAIN UpperSeq : UpperSeq[i] = c
  THEN LowerSeq[CHOOSE i \in DOMAIN UpperSeq : UpperSeq[i] = c]
  ELSE c

UpperChar(c) ==
  IF \E i \in DOMAIN LowerSeq : LowerSeq[i] = c
  THEN UpperSeq[CHOOSE i \in DOMAIN LowerSeq : LowerSeq[i] = c]
  ELSE c

\* str.lower() and str.upper()
Lower(s) == [i \in DOMAIN s |-> LowerChar(s[i])]

Upper(s) == [i \in DOMAIN s |-> UpperChar(s[i])]

\* the text of a character sequence, as it appears inside a message
RECURSIVE Str(_)
Str(s) ==
  IF Len(s) = 0 THEN ""
  ELSE IF Len(s) = 1 THEN s[1]
  ELSE Str(SubSeq(s, 1, Len(s) \div 2)) \o Str(SubSeq(s, Len(s) \div 2 + 1, Len(s)))

\* Optional[str]: the value None
None == <<"<None>">>

\* ------------------------------------------------------- pure functions
max_len == 120

AUDIO == <<"a","u","d","i","o">>

MP3 == <<"m","p","3">>

WAV == <<"w","a","v">>

FormatErrorMsg == "Format must be either 'mp3' or 'wav'."

sanitize_filename_retrim(name) ==
  LET n1 == Strip(name, Whitespace)
      n2 == CollapseWhitespace(n1)
      n3 == RemoveDisallowed(n2)
      n4 == Strip(n3, TrimChars)
      n5 == IF n4 = <<>> THEN AUDIO ELSE n4
  IN  Strip(Take(n5, max_len), TrimChars)

\* AudioExtractor.sanitize_filename (and main._sanitize_filename, the same text)
sanitize_filename(name) ==
  LET n1 == Strip(name, Whitespace)
      n2 == CollapseWhitespace(n1)
      n3 == RemoveDisallowed(n2)
      n4 == Strip(n3, TrimChars)
      n5 == IF n4 = <<>> THEN AUDIO ELSE n4
  IN  Take(n5, max_len)

FormatCandidate_keep_case(value) ==
  Strip(IF value = None \/ value = <<>> THEN MP3 ELSE value, Whitespace)

\* fmt = (value or "mp3").strip().lower()
FormatCandidate(value) ==
  Lower(Strip(IF value = None \/ value = <<>> THEN MP3 ELSE value, Whitespace))

FormatAccepted_any(value) == TRUE

\* if fmt not in {"mp3", "wav"}: raise
FormatAccepted(value) == FormatCandidate(value) \in {MP3, WAV}

\* ------------------------------------------------------------ file system
Procs == 1 .. NumProcs

\* names tempfile.mkdtemp(prefix="yt-extract-") can return
TmpDirs == 1 .. NumProcs

\* Path.cwd(), which exists, and a directory that does not exist yet
CwdDir == 0

NewDir == -1

NoDir == -2

Dirs == TmpDirs \cup {CwdDir, NewDir}

NoPath == [dir |-> NoDir, stem |-> <<>>, ext |-> <<>>]

\* a file of the requested kind left in the directory by an earlier run
OldFile == [stem |-> <<"o","l","d">>, ext |-> MP3, by |-> 0]

\* ------------------------------------------------------------- exceptions
NoExc == [type |-> "none", msg |-> "", status |-> 0]

Exc(t, m) == [type |-> t, msg |-> m, status |-> 0]

\* fastapi.HTTPException(status_code, detail)
HTTPException(code, detail) == [type |-> "HTTPException", msg |-> detail, status |-> code]

\* isinstance(e, Exception): KeyboardInterrupt derives from BaseException only
IsException(e) == e.type \notin {"none", "KeyboardInterrupt"}

\* what the external tool (yt_dlp.YoutubeDL) can raise from a call
ToolErrors(where) ==
  { Exc("DownloadError", "ERROR: " \o where \o " failed"),
    Exc("ValueError", "bad value in " \o where),
    Exc("RuntimeError", "tool crashed in " \o where) }

Interrupt == Exc("KeyboardInterrupt", "")

\* what creating a directory (tempfile.mkdtemp, Path.mkdir) can raise
DirError == Exc("OSError", "[Errno 28] No space left on device")

FaultTypes == {"DownloadError", "ValueError", "RuntimeError", "KeyboardInterrupt", "OSError"}

NotCreatedMsg(fmt) ==
  Str(Upper(fmt)) \o " was not created. Is ffmpeg installed and available on PATH?"

\* ------------------------------------------------------------------ inputs
\* the video behind each URL: the "title" entry of extract_info's result
Urls == {"u_plain", "u_dirty", "u_notitle", "u_empty", "u_long"}

InfoTitle(url) ==
  CASE url = "u_plain"   -> <<"T","e","s","t"," ","V">>
    [] url = "u_dirty"   -> <<" ","T","/","v",":"," ","\t","x",".","_">>
    [] url = "u_notitle" -> None
    [] url = "u_empty"   -> <<>>
    [] url = "u_long"    -> [i \in 1 .. 125 |-> IF i = 120 THEN " " ELSE "a"]

\* format arguments a caller can pass
Formats == { None, <<>>, MP3, <<"M","P","3">>, <<" ","W","a","v","\n">>,
             <<"o","g","g">>, <<" ">>, WAV }

\* click.Choice(["mp3", "wav"], case_sensitive=False) hands main() a listed choice
CliFormats == {MP3, WAV}

OutPaths == { [dir |-> d, stem |-> <<"o","u","t">>, ext |-> MP3] : d \in {CwdDir, NewDir} }

\* a value of the url parameter that pydantic's HttpUrl rejects
BadUrl == "not a url"

Kinds == {"cli", "mcp", "mcp_to_file", "lib", "http", "health"}

\* a request, and with it the faults its environment can inject into the
\* external tool's calls (faults)
NoReq == [kind |-> "off", url |-> "", format |-> None, output_path |-> NoPath,
          output_dir |-> NoDir, patched |-> FALSE, request_id |-> "", faults |-> {}]

Req(k, u, f, op, od, pt, rid) ==
  [kind |-> k, url |-> u, format |-> f, output_path |-> op,
   output_dir |-> od, patched |-> pt, request_id |-> rid, faults |-> FaultTypes]

\* every request a front-end can receive
Requests ==
  { Req("cli", u, f, op, od, FALSE, "") :
      u \in Urls, f \in CliFormats, op \in OutPaths \cup {NoPath}, od \in {NoDir, NewDir} }
  \cup { Req("mcp", u, f, op, NoDir, pt, "") :
      u \in Urls, f \in Formats, op \in OutPaths \cup {NoPath}, pt \in BOOLEAN }
  \cup { Req("mcp_to_file", u, f, op, NoDir, pt, "") :
      u \in Urls, f \in Formats, op \in OutPaths, pt \in BOOLEAN }
  \cup { Req("lib", u, f, NoPath, od, FALSE, "") :
      u \in Urls, f \in Formats, od \in {NoDir, CwdDir, NewDir} }
  \cup { Req("http", u, f, NoPath, NoDir, FALSE, rid) :
      u \in Urls \cup {BadUrl}, f \in Formats, rid \in {"", "rid-7"} }
  \cup { Req("health", "", None, NoPath, NoDir, FALSE, rid) : rid \in {"", "rid-7"} }

\* the requests of the concurrent specification: the callers that allocate a
\* Workspace, on one video (the tool can fail the library call, mkdtemp can
\* fail the HTTP request, either can find no output), and the health probe
ConcRequests ==
  { [Req("lib", "u_plain", MP3, NoPath, NoDir, FALSE, "") EXCEPT !.faults = {"DownloadError"}],
    [Req("http", "u_plain", MP3, NoPath, NoDir, FALSE, "") EXCEPT !.faults = {"OSError"}] }
  \cup { [Req("health", "", None, NoPath, NoDir, FALSE, "") EXCEPT !.faults = {}] }

\* -------------------------------------------------------------------- state
VARIABLES
  req,           \* the call each invocation serves
  pc,            \* where each invocation is
  self_dir,      \* AudioExtractor.output_dir of the invocation's extractor
  audio_format,  \* the normalized format
  output_dir,    \* the directory extract_audio works in (tmp_dir in main.py)
  use_temp,      \* whether output_dir is an ephemeral Workspace
  info,          \* the title entry returned by the metadata fetch
  title,         \* the sanitized title
  raised,        \* the exception raised inside the try block
  exc,           \* the exception the Workflow / endpoint raised to its caller
  ret,           \* the (path, filename) the Workflow returned
  resp,          \* what the front-end handed to its caller
  rid,           \* request.state.request_id of an HTTP request
  cleanup,       \* what the invocation's shutil.rmtree call did, if it ran
  sent,          \* how much of the HTTP response body reached the caller
  fs,            \* the directories and their files
  loop,          \* the HTTP request whose coroutine occupies the event loop, or 0
  calls,         \* the calls of the external tool an invocation made, in order
  log,           \* the log events emitted for each HTTP request
  pure           \* a call of one of the two pure helpers: argument and outcome

vars == <<req, pc, self_dir, audio_format, output_dir, use_temp, info, title,
          raised, exc, ret, resp, rid, cleanup, sent, fs, loop, calls, log, pure>>

NoRet == [path |-> NoPath, filename |-> <<>>]

NoResp == [kind |-> "none"]

\* no helper is being called
NoCall == [fn |-> "none", at |-> "idle", arg |-> <<>>, out |-> <<>>, err |-> NoExc,
           again |-> <<>>]

\* owner: the invocation whose mkdtemp created the directory (0: nobody's)
EmptyFs == [d \in Dirs |-> [exists |-> d = CwdDir, files |-> {}, owner |-> 0]]

PathExists(path) ==
  /\ path.dir \in Dirs
  /\ fs[path.dir].exists
  /\ \E f \in fs[path.dir].files : f.stem = path.stem /\ f.ext = path.ext

InitProc ==
  /\ self_dir = [p \in Procs |-> NoDir]
  /\ audio_format = [p \in Procs |-> <<>>]
  /\ output_dir = [p \in Procs |-> NoDir]
  /\ use_temp = [p \in Procs |-> FALSE]
  /\ info = [p \in Procs |-> None]
  /\ title = [p \in Procs |-> <<>>]
  /\ raised = [p \in Procs |-> NoExc]
  /\ exc = [p \in Procs |-> NoExc]
  /\ ret = [p \in Procs |-> NoRet]
  /\ resp = [p \in Procs |-> NoResp]
  /\ rid = [p \in Procs |-> ""]
  /\ cleanup = [p \in Procs |-> "none"]
  /\ sent = [p \in Procs |-> "none"]
  /\ loop = 0
  /\ calls = [p \in Procs |-> <<>>]
  /\ log = [p \in Procs |-> {}]

\* one invocation, any request, the working directory with or without an old file
Init ==
  /\ InitProc
  /\ pure = NoCall
  /\ pc = [p \in Procs |-> IF p = 1 THEN "start" ELSE "off"]
  /\ \E r \in Requests : req = [p \in Procs |-> IF p = 1 THEN r ELSE NoReq]
  /\ \E old \in SUBSET {OldFile} : fs = [EmptyFs EXCEPT ![CwdDir].files = old]

\* NumProcs invocations at once, each allocating a Workspace
InitConc ==
  /\ InitProc
  /\ pure = NoCall
  /\ pc = [p \in Procs |-> "start"]
  /\ req \in [Procs -> ConcRequests]
  /\ fs = EmptyFs

\* ------------------------------------------------- file system operations
\* tempfile.mkdtemp: a directory that did not exist, created exclusively
Mkdtemp_any_name(f) == TmpDirs

Mkdtemp(f) == {d \in TmpDirs : ~f[d].exists}

Mkdir_fresh(f, d) == [f EXCEPT ![d] = [exists |-> TRUE, files |-> {}, owner |-> 0]]

\* Path.mkdir(parents=True, exist_ok=True)
Mkdir(f, d) == [f EXCEPT ![d].exists = TRUE]

\* shutil.rmtree(d, ignore_errors=True): the tree is removed, or an error
\* (a file still held open, a permission) is swallowed and the directory stays
Rmtree(f, d) ==
  IF f[d].exists
  THEN { [fs |-> [f EXCEPT ![d] = [exists |-> FALSE, files |-> {}, owner |-> 0]], how |-> "removed"],
         [fs |-> f, how |-> "failed"] }
  ELSE { [fs |-> f, how |-> "failed"] }

\* Path.glob("*.<fmt>") over directory d
Glob(f, d, fmt) == {x \in f[d].files : x.ext = fmt}

PathOf(d, x) == [dir |-> d, stem |-> x.stem, ext |-> x.ext]

\* what ydl.download leaves in the directory: the transcoded file, or nothing
\* of the requested format (transcoder missing)
Downloaded(f, d, stem, fmt, p) ==
  { [f EXCEPT ![d].files = (@ \ {x \in @ : x.stem = stem /\ x.ext = fmt})
                             \cup {[stem |-> stem, ext |-> fmt, by |-> p]}],
    f }

\* ------------------------------------------------------ core.py: Workflow
DisplayFilename_no_ext(t, fmt) == t

\* f"{title}.{audio_format}"
DisplayFilename(t, fmt) == t \o <<".">> \o fmt

\* info.get("title") or "audio"
TitleOrDefault(t) == IF t = None \/ t = <<>> THEN AUDIO ELSE t

CoreReraise_no_message(e) ==
  IF e.type \in {"ValueError", "RuntimeError"} THEN e
  ELSE Exc("RuntimeError", "Failed to extract audio")

\* the end of the except block: classified errors pass, the rest are wrapped
CoreReraise(e) ==
  IF e.type \in {"ValueError", "RuntimeError"} THEN e
  ELSE Exc("RuntimeError", "Failed to extract audio: " \o e.msg)

CoreKind(p) == req[p].kind \in {"cli", "mcp", "mcp_to_file", "lib"}

\* may Ctrl-C reach the call: an interactive process, not a server
Interruptible(p) == req[p].kind \in {"cli", "lib"}

\* what a call of the external tool can raise in invocation p
Faults(p, where) ==
  { e \in ToolErrors(where) \cup {Interrupt} :
      /\ e.type \in req[p].faults
      /\ e = Interrupt => Interruptible(p) }

\* audio_format = self.normalize_audio_format(audio_format), before the try
CoreNormalize(p) ==
  /\ CoreKind(p) /\ pc[p] = "normalize"
  /\ IF FormatAccepted(req[p].format)
     THEN /\ audio_format' = [audio_format EXCEPT ![p] = FormatCandidate(req[p].format)]
          /\ pc' = [pc EXCEPT ![p] = "prepare"]
          /\ exc' = exc
     ELSE /\ exc' = [exc EXCEPT ![p] = Exc("ValueError", FormatErrorMsg)]
          /\ pc' = [pc EXCEPT ![p] = "raised"]
          /\ audio_format' = audio_format
  /\ UNCHANGED <<calls, log, pure>>
  /\ UNCHANGED <<req, self_dir, output_dir, use_temp, info, title, raised, ret,
                 resp, rid, cleanup, sent, fs, loop>>

\* may creating a directory fail in invocation p
DirFaults(p) == IF "OSError" \in req[p].faults THEN {DirError} ELSE {}

\* the choice of the output directory, before the try block: an error of
\* mkdir / mkdtemp reaches the caller as it is
CorePrepare(p) ==
  /\ CoreKind(p) /\ pc[p] = "prepare"
  /\ \/ /\ IF req[p].output_path # NoPath
           THEN /\ output_dir' = [output_dir EXCEPT ![p] = req[p].output_path.dir]
                /\ fs' = Mkdir(fs, req[p].output_path.dir)
                /\ use_temp' = [use_temp EXCEPT ![p] = FALSE]
           ELSE IF self_dir[p] # NoDir
           THEN /\ output_dir' = [output_dir EXCEPT ![p] = self_dir[p]]
                /\ fs' = Mkdir(fs, self_dir[p])
                /\ use_temp' = [use_temp EXCEPT ![p] = FALSE]
           ELSE \E d \in Mkdtemp(fs) :
                /\ output_dir' = [output_dir EXCEPT ![p] = d]
                /\ fs' = [fs EXCEPT ![d] = [exists |-> TRUE, files |-> {}, owner |-> p]]
                /\ use_temp' = [use_temp EXCEPT ![p] = TRUE]
        /\ pc' = [pc EXCEPT ![p] = "info"]
        /\ exc' = exc
     \/ \E e \in DirFaults(p) :
        /\ exc' = [exc EXCEPT ![p] = e]
        /\ pc' = [pc EXCEPT ![p] = "raised"]
        /\ UNCHANGED <<output_dir, fs, use_temp>>
  /\ UNCHANGED <<calls, log, pure>>
  /\ UNCHANGED <<req, self_dir, audio_format, info, title, raised, ret,
                 resp, rid, cleanup, sent, loop>>

AfterStep_skip_download(step) == "glob"

\* the statement order of the try block: the step that follows a finished step
AfterStep(step) == IF step = "info" THEN "download" ELSE "glob"

\* ydl.extract_info(url, download=False) and the title built from it
CoreExtractInfo(p) ==
  /\ CoreKind(p) /\ pc[p] = "info"
  /\ calls' = [calls EXCEPT ![p] = Append(@, "extract_info")]
  /\ \/ /\ info' = [info EXCEPT ![p] = InfoTitle(req[p].url)]
        /\ title' = [title EXCEPT ![p] = sanitize_filename(TitleOrDefault(InfoTitle(req[p].url)))]
        /\ pc' = [pc EXCEPT ![p] = AfterStep("info")]
        /\ raised' = raised
     \/ \E e \in Faults(p, "extract_info") :
        /\ raised' = [raised EXCEPT ![p] = e]
        /\ pc' = [pc EXCEPT ![p] = "except"]
        /\ UNCHANGED <<info, title>>
  /\ UNCHANGED <<log, pure>>
  /\ UNCHANGED <<req, self_dir, audio_format, output_dir, use_temp, exc, ret,
                 resp, rid, cleanup, sent, fs, loop>>

\* outtmpl: the explicit path verbatim, else <output_dir>/<title>.%(ext)s
CoreStem(p) == IF req[p].output_path # NoPath THEN req[p].output_path.stem ELSE title[p]

\* ydl.download([url]) with the FFmpegExtractAudio postprocessor
CoreDownload(p) ==
  /\ CoreKind(p) /\ pc[p] = "download"
  /\ calls' = [calls EXCEPT ![p] = Append(@, "download")]
  /\ \/ /\ fs' \in Downloaded(fs, output_dir[p], CoreStem(p), audio_format[p], p)
        /\ pc' = [pc EXCEPT ![p] = AfterStep("download")]
        /\ raised' = raised
     \/ \E e \in Faults(p, "download") :
        /\ raised' = [raised EXCEPT ![p] = e]
        /\ pc' = [pc EXCEPT ![p] = "except"]
        /\ fs' = fs
  /\ UNCHANGED <<log, pure>>
  /\ UNCHANGED <<req, self_dir, audio_format, output_dir, use_temp, info, title,
                 exc, ret, resp, rid, cleanup, sent, loop>>

\* output discovery: the first match of the glob, or the "was not created" error
CoreGlob(p) ==
  /\ CoreKind(p) /\ pc[p] = "glob"
  /\ calls' = [calls EXCEPT ![p] = Append(@, "glob")]
  /\ IF Glob(fs, output_dir[p], audio_format[p]) # {}
     THEN \E x \in Glob(fs, output_dir[p], audio_format[p]) :
          /\ ret' = [ret EXCEPT ![p] = [path |-> PathOf(output_dir[p], x),
                                        filename |-> DisplayFilename(title[p], audio_format[p])]]
          /\ pc' = [pc EXCEPT ![p] = "returned"]
          /\ raised' = raised
     ELSE /\ raised' = [raised EXCEPT ![p] = Exc("RuntimeError", NotCreatedMsg(audio_format[p]))]
          /\ pc' = [pc EXCEPT ![p] = "except"]
          /\ ret' = ret
  /\ UNCHANGED <<log, pure>>
  /\ UNCHANGED <<req, self_dir, audio_format, output_dir, use_temp, info, title,
                 exc, resp, rid, cleanup, sent, fs, loop>>

CoreCleanup_never(f, d, temp) == {[fs |-> f, how |-> "none"]}

\* if use_temp: shutil.rmtree(output_dir, ignore_errors=True)
CoreCleanup(f, d, temp) == IF temp THEN Rmtree(f, d) ELSE {[fs |-> f, how |-> "none"]}

\* except Exception as e: clean up, then re-raise; a KeyboardInterrupt is not
\* an Exception and leaves the try statement untouched
CoreExcept(p) ==
  /\ CoreKind(p) /\ pc[p] = "except"
  /\ IF IsException(raised[p])
     THEN \E c \in CoreCleanup(fs, output_dir[p], use_temp[p]) :
          /\ fs' = c.fs
          /\ cleanup' = [cleanup EXCEPT ![p] = c.how]
          /\ exc' = [exc EXCEPT ![p] = CoreReraise(raised[p])]
     ELSE /\ exc' = [exc EXCEPT ![p] = raised[p]]
          /\ UNCHANGED <<fs, cleanup>>
  /\ pc' = [pc EXCEPT ![p] = "raised"]
  /\ UNCHANGED <<calls, log, pure>>
  /\ UNCHANGED <<req, self_dir, audio_format, output_dir, use_temp, info, title,
                 raised, ret, resp, rid, sent, loop>>

\* --------------------------------------------------------- cli.py: main
\* extractor = AudioExtractor(output_dir=output_dir or Path.cwd()), then the call
CliMain(p) ==
  /\ req[p].kind = "cli" /\ pc[p] = "start"
  /\ self_dir' = [self_dir EXCEPT ![p] =
                    IF req[p].output_dir # NoDir THEN req[p].output_dir ELSE CwdDir]
  /\ pc' = [pc EXCEPT ![p] = "normalize"]
  /\ UNCHANGED <<calls, log, pure>>
  /\ UNCHANGED <<req, audio_format, output_dir, use_temp, info, title, raised, exc,
                 ret, resp, rid, cleanup, sent, fs, loop>>

CliOutcome_interrupt_is_error(e, r) ==
  CASE e.type = "none" -> [code |-> 0, line |-> "Output: " \o Str(r.filename)]
    [] e.type \in {"ValueError", "RuntimeError"} -> [code |-> 1, line |-> "Error: " \o e.msg]
    [] OTHER -> [code |-> 1, line |-> "Unexpected error: " \o e.msg]

\* the exit code and the last line written to standard error
CliOutcome(e, r) ==
  CASE e.type = "none" -> [code |-> 0, line |-> "Output: " \o Str(r.filename)]
    [] e.type \in {"ValueError", "RuntimeError"} -> [code |-> 1, line |-> "Error: " \o e.msg]
    [] e.type = "KeyboardInterrupt" -> [code |-> 130, line |-> "\nInterrupted by user"]
    [] OTHER -> [code |-> 1, line |-> "Unexpected error: " \o e.msg]

CliExit(p) ==
  /\ req[p].kind = "cli" /\ pc[p] \in {"returned", "raised"}
  /\ resp' = [resp EXCEPT ![p] =
                [kind |-> "cli", exit_code |-> CliOutcome(exc[p], ret[p]).code,
                 stderr |-> CliOutcome(exc[p], ret[p]).line]]
  /\ pc' = [pc EXCEPT ![p] = "done"]
  /\ UNCHANGED <<calls, log, pure>>
  /\ UNCHANGED <<req, self_dir, audio_format, output_dir, use_temp, info, title,
                 raised, exc, ret, rid, cleanup, sent, fs, loop>>

\* ------------------------------------- core.py: module-level extract_audio
LibCall(p) ==
  /\ req[p].kind = "lib" /\ pc[p] = "start"
  /\ self_dir' = [self_dir EXCEPT ![p] = req[p].output_dir]
  /\ pc' = [pc EXCEPT ![p] = "normalize"]
  /\ UNCHANGED <<calls, log, pure>>
  /\ UNCHANGED <<req, audio_format, output_dir, use_temp, info, title, raised, exc,
                 ret, resp, rid, cleanup, sent, fs, loop>>

\* the tuple, or the exception, reaches the caller; nothing else runs
LibReturn(p) ==
  /\ req[p].kind = "lib" /\ pc[p] \in {"returned", "raised"}
  /\ resp' = [resp EXCEPT ![p] = [kind |-> "lib", raised |-> exc[p], value |-> ret[p]]]
  /\ pc' = [pc EXCEPT ![p] = "done"]
  /\ UNCHANGED <<calls, log, pure>>
  /\ UNCHANGED <<req, self_dir, audio_format, output_dir, use_temp, info, title,
                 raised, exc, ret, rid, cleanup, sent, fs, loop>>

\* ------------------------------------------------ mcp_server.py: the tools
\* the parameters of AudioExtractor.__init__ besides self
InitParams == {"output_dir"}

\* the keyword arguments both tools construct the extractor with
McpKwargs == {"cookies_file", "cookies_from_browser", "user_agent", "proxy"}

\* calling AudioExtractor(**kwargs): a keyword __init__ does not declare is a TypeError
AudioExtractorInit(kwargs) ==
  IF kwargs \subseteq InitParams THEN NoExc
  ELSE Exc("TypeError", "AudioExtractor.__init__() got an unexpected keyword argument")

\* the extractor double of the unit tests: what its method returns or raises
MockRaises == { Exc("ValueError", "Invalid format"), Exc("RuntimeError", "Extraction failed"),
                Exc("KeyError", "'title'") }

MockReturn == [path |-> [dir |-> NoDir, stem |-> <<"t","e","s","t">>, ext |-> MP3],
               filename |-> <<"t","e","s","t",".","m","p","3">>]

\* the try block of a tool up to the call into the extractor
McpEnter(p) ==
  /\ pc[p] = "start"
  /\ IF req[p].patched
     THEN /\ \/ /\ ret' = [ret EXCEPT ![p] = MockReturn]
                /\ pc' = [pc EXCEPT ![p] = "returned"]
                /\ exc' = exc
             \/ \E e \in MockRaises :
                /\ exc' = [exc EXCEPT ![p] = e]
                /\ pc' = [pc EXCEPT ![p] = "raised"]
                /\ ret' = ret
     ELSE /\ IF AudioExtractorInit(McpKwargs) = NoExc
             THEN /\ pc' = [pc EXCEPT ![p] = "normalize"]
                  /\ exc' = exc
             ELSE /\ exc' = [exc EXCEPT ![p] = AudioExtractorInit(McpKwargs)]
                  /\ pc' = [pc EXCEPT ![p] = "raised"]
          /\ ret' = ret
  /\ UNCHANGED <<calls, log, pure>>
  /\ UNCHANGED <<req, self_dir, audio_format, output_dir, use_temp, info, title,
                 raised, resp, rid, cleanup, sent, fs, loop>>

McpError_one_prefix(e) == "Extraction failed: " \o e.msg

\* the three except clauses
McpError(e) ==
  CASE e.type = "ValueError" -> "Invalid input: " \o e.msg
    [] e.type = "RuntimeError" -> "Extraction failed: " \o e.msg
    [] OTHER -> "Unexpected error: " \o e.msg

\* the dictionary a tool returns
McpResult(e, r, op) ==
  IF e.type = "none"
  THEN [kind |-> "mcp", keys |-> {"success", "file_path", "filename"}, success |-> TRUE,
        file_path |-> IF op # NoPath THEN op ELSE r.path, filename |-> r.filename,
        error |-> ""]
  ELSE [kind |-> "mcp", keys |-> {"success", "error"}, success |-> FALSE,
        file_path |-> NoPath, filename |-> <<>>, error |-> McpError(e)]

McpFinish(p) ==
  /\ pc[p] \in {"returned", "raised"}
  /\ resp' = [resp EXCEPT ![p] = McpResult(exc[p], ret[p], req[p].output_path)]
  /\ pc' = [pc EXCEPT ![p] = "done"]
  /\ UNCHANGED <<calls, log, pure>>
  /\ UNCHANGED <<req, self_dir, audio_format, output_dir, use_temp, info, title,
                 raised, exc, ret, rid, cleanup, sent, fs, loop>>

\* tool extract_audio(url, format, output_path)
McpExtractAudio(p) == req[p].kind = "mcp" /\ (McpEnter(p) \/ McpFinish(p))

\* tool extract_audio_to_file(url, output_path, format)
McpExtractAudioToFile(p) == req[p].kind = "mcp_to_file" /\ (McpEnter(p) \/ McpFinish(p))

\* ------------------------------------------------ main.py: the HTTP service
\* main._sanitize_filename, a second copy of the sanitizer
main_sanitize_filename(name) ==
  LET n1 == Strip(name, Whitespace)
      n2 == CollapseWhitespace(n1)
      n3 == RemoveDisallowed(n2)
      n4 == Strip(n3, TrimChars)
      n5 == IF n4 = <<>> THEN AUDIO ELSE n4
  IN  Take(n5, max_len)

HttpKind(p) == req[p].kind = "http"

\* a request of the HTTP service: an extraction or GET /api/health
ServedKind(p) == req[p].kind \in {"http", "health"}

\* is the invocation's directory an ephemeral Workspace (main.py always uses one)
Ephemeral(p) == output_dir[p] # NoDir /\ (use_temp[p] \/ HttpKind(p))

RequestId_always_new(header) == "uuid4"

\* request.headers.get("x-request-id") or str(uuid.uuid4())
RequestId(header) == IF header # "" THEN header ELSE "uuid4"

\* the parts of a URL: netloc is userinfo and host, the query is the v
\* parameter and the other parameters
NoUrl == [scheme |-> "", userinfo |-> "", host |-> "", path |-> "", v |-> "",
          other |-> "", fragment |-> ""]

\* urlparse(url) of the URLs callers send
UrlParts(url) ==
  CASE url = "u_plain"   -> [NoUrl EXCEPT !.scheme = "https", !.host = "www.youtube.com",
                                           !.path = "/watch", !.v = "abc"]
    [] url = "u_dirty"   -> [NoUrl EXCEPT !.scheme = "https", !.host = "www.youtube.com",
                                           !.path = "/watch", !.v = "abc",
                                           !.other = "list=PL1&token=t0p"]
    [] url = "u_notitle" -> [NoUrl EXCEPT !.scheme = "https", !.host = "www.youtube.com",
                                           !.path = "/watch", !.v = "abc",
                                           !.fragment = "t=42"]
    [] url = "u_empty"   -> [NoUrl EXCEPT !.scheme = "https", !.userinfo = "alice:s3cret",
                                           !.host = "media.example.com", !.path = "/watch",
                                           !.v = "abc"]
    [] url = "u_long"    -> [NoUrl EXCEPT !.scheme = "https", !.host = "youtu.be",
                                           !.path = "/abc", !.other = "si=track"]

\* _redact_youtube_url_for_logs: urlunparse((scheme, netloc, path, "", v, ""))
RedactUrl(u) == [u EXCEPT !.other = "", !.fragment = ""]

\* a log event: its name, the youtube_url of its context, its error / detail
Event(name, url, error) == [event |-> name, youtube_url |-> url, error |-> error]

\* middleware log_requests up to `await call_next(request)`
HttpMiddleware(p) ==
  /\ ServedKind(p) /\ pc[p] = "start" /\ loop = 0
  /\ rid' = [rid EXCEPT ![p] = RequestId(req[p].request_id)]
  /\ log' = [log EXCEPT ![p] = @ \cup {Event("request.start", NoUrl, "")}]
  /\ pc' = [pc EXCEPT ![p] = "endpoint"]
  /\ UNCHANGED <<calls, pure>>
  /\ UNCHANGED <<req, self_dir, audio_format, output_dir, use_temp, info, title,
                 raised, exc, ret, resp, cleanup, sent, fs, loop>>

MediaType(fmt) == IF fmt = MP3 THEN "audio/mpeg" ELSE "audio/wav"

NoHttpResp == [kind |-> "http", status |-> 0, keys |-> {}, detail |-> "",
               request_id |-> "", header |-> "", path |-> NoPath, filename |-> <<>>,
               media_type |-> ""]

\* the endpoint: the framework validates url (HttpUrl) and answers 422 itself;
\* else the coroutine runs on the event loop: _normalize_audio_format, then
\* _extract_audio_file_response up to extract.start (mkdtemp is before the try)
HttpEndpoint(p) ==
  /\ HttpKind(p) /\ pc[p] = "endpoint" /\ loop = 0
  /\ IF req[p].url = BadUrl
     THEN /\ resp' = [resp EXCEPT ![p] =
                        [NoHttpResp EXCEPT !.status = 422, !.keys = {"detail"},
                                           !.detail = "Input should be a valid URL"]]
          /\ pc' = [pc EXCEPT ![p] = "h_send_err"]
          /\ UNCHANGED <<audio_format, output_dir, fs, exc, log, loop>>
     ELSE IF ~FormatAccepted(req[p].format)
     THEN /\ exc' = [exc EXCEPT ![p] = HTTPException(400, FormatErrorMsg)]
          /\ pc' = [pc EXCEPT ![p] = "h_handler"]
          /\ loop' = p
          /\ UNCHANGED <<audio_format, output_dir, fs, resp, log>>
     ELSE /\ audio_format' = [audio_format EXCEPT ![p] = FormatCandidate(req[p].format)]
          /\ loop' = p
          /\ resp' = resp
          /\ \/ \E d \in Mkdtemp(fs) :
                /\ output_dir' = [output_dir EXCEPT ![p] = d]
                /\ fs' = [fs EXCEPT ![d] = [exists |-> TRUE, files |-> {}, owner |-> p]]
                /\ log' = [log EXCEPT ![p] =
                             @ \cup {Event("extract.start", RedactUrl(UrlParts(req[p].url)), "")}]
                /\ pc' = [pc EXCEPT ![p] = "h_info"]
                /\ exc' = exc
             \/ \E e \in DirFaults(p) :
                /\ exc' = [exc EXCEPT ![p] = e]
                /\ pc' = [pc EXCEPT ![p] = "h_unhandled"]
                /\ UNCHANGED <<output_dir, fs, log>>
  /\ UNCHANGED <<calls, pure>>
  /\ UNCHANGED <<req, self_dir, use_temp, info, title, raised, ret, rid,
                 cleanup, sent>>

HttpExtractInfo(p) ==
  /\ HttpKind(p) /\ pc[p] = "h_info"
  /\ calls' = [calls EXCEPT ![p] = Append(@, "extract_info")]
  /\ \/ /\ info' = [info EXCEPT ![p] = InfoTitle(req[p].url)]
        /\ title' = [title EXCEPT ![p] =
                       main_sanitize_filename(TitleOrDefault(InfoTitle(req[p].url)))]
        /\ pc' = [pc EXCEPT ![p] = "h_" \o AfterStep("info")]
        /\ raised' = raised
     \/ \E e \in Faults(p, "extract_info") :
        /\ raised' = [raised EXCEPT ![p] = e]
        /\ pc' = [pc EXCEPT ![p] = "h_except"]
        /\ UNCHANGED <<info, title>>
  /\ UNCHANGED <<log, pure>>
  /\ UNCHANGED <<req, self_dir, audio_format, output_dir, use_temp, exc, ret,
                 resp, rid, cleanup, sent, fs, loop>>

HttpDownload(p) ==
  /\ HttpKind(p) /\ pc[p] = "h_download"
  /\ calls' = [calls EXCEPT ![p] = Append(@, "download")]
  /\ \/ /\ fs' \in Downloaded(fs, output_dir[p], title[p], audio_format[p], p)
        /\ pc' = [pc EXCEPT ![p] = "h_" \o AfterStep("download")]
        /\ raised' = raised
     \/ \E e \in Faults(p, "download") :
        /\ raised' = [raised EXCEPT ![p] = e]
        /\ pc' = [pc EXCEPT ![p] = "h_except"]
        /\ fs' = fs
  /\ UNCHANGED <<log, pure>>
  /\ UNCHANGED <<req, self_dir, audio_format, output_dir, use_temp, info, title,
                 exc, ret, resp, rid, cleanup, sent, loop>>

NotCreatedStatus == 500

\* output discovery, then the FileResponse or the HTTPException
HttpGlob(p) ==
  /\ HttpKind(p) /\ pc[p] = "h_glob"
  /\ calls' = [calls EXCEPT ![p] = Append(@, "glob")]
  /\ IF Glob(fs, output_dir[p], audio_format[p]) # {}
     THEN \E x \in Glob(fs, output_dir[p], audio_format[p]) :
          /\ resp' = [resp EXCEPT ![p] =
                        [NoHttpResp EXCEPT !.status = 200,
                                           !.path = PathOf(output_dir[p], x),
                                           !.filename = DisplayFilename(title[p], audio_format[p]),
                                           !.media_type = MediaType(audio_format[p])]]
          /\ log' = [log EXCEPT ![p] = @ \cup {Event("extract.success", NoUrl, "")}]
          /\ pc' = [pc EXCEPT ![p] = "h_send"]
          /\ loop' = 0
          /\ raised' = raised
     ELSE /\ raised' = [raised EXCEPT ![p] =
                          HTTPException(NotCreatedStatus, NotCreatedMsg(audio_format[p]))]
          /\ pc' = [pc EXCEPT ![p] = "h_except"]
          /\ UNCHANGED <<resp, loop, log>>
  /\ pure' = pure
  /\ UNCHANGED <<req, self_dir, audio_format, output_dir, use_temp, info, title,
                 exc, ret, rid, cleanup, sent, fs>>

\* except HTTPException: raise / except Exception as e: HTTPException(400, str(e))
HttpReraise(e) == IF e.type = "HTTPException" THEN e ELSE HTTPException(400, e.msg)

\* extract.fail, or extract.error with str(e), written by the except clause
HttpExceptEvent(e) ==
  IF e.type = "HTTPException" THEN Event("extract.fail", NoUrl, "")
  ELSE Event("extract.error", NoUrl, e.msg)

HttpCleanup_never(f, d) == {[fs |-> f, how |-> "none"]}

\* shutil.rmtree(tmp_dir, ignore_errors=True) in both except clauses
HttpCleanup(f, d) == Rmtree(f, d)

HttpExcept(p) ==
  /\ HttpKind(p) /\ pc[p] = "h_except"
  /\ log' = [log EXCEPT ![p] = @ \cup {HttpExceptEvent(raised[p])}]
  /\ \E c \in HttpCleanup(fs, output_dir[p]) :
     /\ fs' = c.fs
     /\ cleanup' = [cleanup EXCEPT ![p] = c.how]
  /\ exc' = [exc EXCEPT ![p] = HttpReraise(raised[p])]
  /\ pc' = [pc EXCEPT ![p] = "h_handler"]
  /\ UNCHANGED <<calls, pure>>
  /\ UNCHANGED <<req, self_dir, audio_format, output_dir, use_temp, info, title,
                 raised, ret, resp, rid, sent, loop>>

\* http_exception_handler: the JSON error response
HttpHandler(p) ==
  /\ HttpKind(p) /\ pc[p] = "h_handler"
  /\ log' = [log EXCEPT ![p] = @ \cup {Event("http_exception", NoUrl, exc[p].msg)}]
  /\ resp' = [resp EXCEPT ![p] =
                [NoHttpResp EXCEPT !.status = exc[p].status,
                                   !.keys = {"detail", "request_id"},
                                   !.detail = exc[p].msg,
                                   !.request_id = rid[p],
                                   !.header = rid[p]]]
  /\ pc' = [pc EXCEPT ![p] = "h_send_err"]
  /\ loop' = 0
  /\ UNCHANGED <<calls, pure>>
  /\ UNCHANGED <<req, self_dir, audio_format, output_dir, use_temp, info, title,
                 raised, exc, ret, rid, cleanup, sent, fs>>

\* an exception no handler of the endpoint caught: the middleware logs
\* request.error and re-raises, unhandled_exception_handler answers 500
HttpUnhandled(p) ==
  /\ HttpKind(p) /\ pc[p] = "h_unhandled"
  /\ log' = [log EXCEPT ![p] = @ \cup {Event("request.error", NoUrl, exc[p].msg),
                                       Event("unhandled_exception", NoUrl, exc[p].msg)}]
  /\ resp' = [resp EXCEPT ![p] =
                [NoHttpResp EXCEPT !.status = 500,
                                   !.keys = {"detail", "request_id"},
                                   !.detail = "Internal server error",
                                   !.request_id = rid[p],
                                   !.header = rid[p]]]
  /\ sent' = [sent EXCEPT ![p] = "full"]
  /\ pc' = [pc EXCEPT ![p] = "done"]
  /\ loop' = 0
  /\ UNCHANGED <<calls, pure>>
  /\ UNCHANGED <<req, self_dir, audio_format, output_dir, use_temp, info, title,
                 raised, exc, ret, rid, cleanup, fs>>

\* the error response travels back through the middleware, which logs
\* request.end and sets X-Request-Id, to the caller
HttpSendError(p) ==
  /\ HttpKind(p) /\ pc[p] = "h_send_err" /\ loop = 0
  /\ log' = [log EXCEPT ![p] = @ \cup {Event("request.end", NoUrl, "")}]
  /\ resp' = [resp EXCEPT ![p].header = rid[p]]
  /\ sent' = [sent EXCEPT ![p] = "full"]
  /\ pc' = [pc EXCEPT ![p] = "done"]
  /\ UNCHANGED <<calls, pure>>
  /\ UNCHANGED <<req, self_dir, audio_format, output_dir, use_temp, info, title,
                 raised, exc, ret, rid, cleanup, fs, loop>>

\* the middleware sets X-Request-Id and the file is streamed to the caller
HttpSendFile(p) ==
  /\ HttpKind(p) /\ pc[p] = "h_send" /\ loop = 0
  /\ log' = [log EXCEPT ![p] = @ \cup {Event("request.end", NoUrl, "")}]
  /\ resp' = [resp EXCEPT ![p].header = rid[p]]
  /\ sent' = [sent EXCEPT ![p] = IF PathExists(resp[p].path) THEN "full" ELSE "missing"]
  /\ pc' = [pc EXCEPT ![p] = "h_background"]
  /\ UNCHANGED <<calls, pure>>
  /\ UNCHANGED <<req, self_dir, audio_format, output_dir, use_temp, info, title,
                 raised, exc, ret, rid, cleanup, fs, loop>>

\* BackgroundTask(shutil.rmtree, tmp_dir, ignore_errors=True), run after the body
HttpBackground(p) ==
  /\ HttpKind(p) /\ pc[p] = "h_background"
  /\ \E c \in Rmtree(fs, output_dir[p]) :
     /\ fs' = c.fs
     /\ cleanup' = [cleanup EXCEPT ![p] = c.how]
  /\ pc' = [pc EXCEPT ![p] = "done"]
  /\ UNCHANGED <<calls, log, pure>>
  /\ UNCHANGED <<req, self_dir, audio_format, output_dir, use_temp, info, title,
                 raised, exc, ret, resp, rid, sent, loop>>

\* GET /api/health: the coroutine logs, answers {"ok": true}, and the
\* middleware sets X-Request-Id on the way out
Health(p) ==
  /\ req[p].kind = "health" /\ pc[p] = "endpoint" /\ loop = 0
  /\ log' = [log EXCEPT ![p] = @ \cup {Event("health", NoUrl, ""),
                                       Event("request.end", NoUrl, "")}]
  /\ resp' = [resp EXCEPT ![p] =
                [NoHttpResp EXCEPT !.status = 200, !.keys = {"ok"}, !.header = rid[p]]]
  /\ sent' = [sent EXCEPT ![p] = "full"]
  /\ pc' = [pc EXCEPT ![p] = "done"]
  /\ UNCHANGED <<calls, pure>>
  /\ UNCHANGED <<req, self_dir, audio_format, output_dir, use_temp, info, title,
                 raised, exc, ret, rid, cleanup, fs, loop>>

\* ------------------------------------------- the pure helpers on their own
\* every text of at most n characters over the alphabet cs
Texts(cs, n) == UNION {[1 .. k -> cs] : k \in 0 .. n}

\* letters, a digit, both kinds of whitespace, trimmed and disallowed characters
NameChars == {"a", "Z", "7", " ", "\t", "/", ".", "-", "(", ":"}

\* names around the length limit, one character of them not a letter
LongNames ==
  { [i \in 1 .. n |-> IF i = k THEN c ELSE "a"] :
      n \in {120, 121, 125}, k \in {1, 120, 121}, c \in {" ", ".", "/"} }

Names == Texts(NameChars, MaxNameLen) \cup LongNames \cup {InfoTitle(u) : u \in Urls}

FormatChars == {"m", "p", "3", "M", "w", "a", "V", " ", "\n"}

FormatValues == Texts(FormatChars, MaxFmtLen) \cup Formats

\* every invocation idle: only a helper is called
InitIdle ==
  /\ InitProc
  /\ pc = [p \in Procs |-> "off"]
  /\ req = [p \in Procs |-> NoReq]
  /\ fs = EmptyFs

InitSanitize ==
  /\ InitIdle
  /\ \E n \in Names : pure = [NoCall EXCEPT !.fn = "sanitize_filename", !.at = "call", !.arg = n]

\* AudioExtractor.sanitize_filename(name)
SanitizeFilename ==
  /\ pure.fn = "sanitize_filename" /\ pure.at = "call"
  /\ pure' = [pure EXCEPT !.out = sanitize_filename(pure.arg), !.at = "returned"]
  /\ UNCHANGED <<req, pc, self_dir, audio_format, output_dir, use_temp, info, title,
                 raised, exc, ret, resp, rid, cleanup, sent, fs, loop, calls, log>>

SpecSanitize == InitSanitize /\ [][SanitizeFilename]_vars

InitNormalize ==
  /\ InitIdle
  /\ \E v \in FormatValues :
       pure = [NoCall EXCEPT !.fn = "normalize_audio_format", !.at = "call", !.arg = v]

\* AudioExtractor.normalize_audio_format(value)
NormalizeAudioFormat ==
  /\ pure.fn = "normalize_audio_format" /\ pure.at = "call"
  /\ pure' = IF FormatAccepted(pure.arg)
             THEN [pure EXCEPT !.out = FormatCandidate(pure.arg), !.at = "returned"]
             ELSE [pure EXCEPT !.err = Exc("ValueError", FormatErrorMsg), !.at = "raised"]
  /\ UNCHANGED <<req, pc, self_dir, audio_format, output_dir, use_temp, info, title,
                 raised, exc, ret, resp, rid, cleanup, sent, fs, loop, calls, log>>

\* normalize_audio_format applied to the value it returned
NormalizeAgain ==
  /\ pure.fn = "normalize_audio_format" /\ pure.at = "returned"
  /\ pure' = IF FormatAccepted(pure.out)
             THEN [pure EXCEPT !.again = FormatCandidate(pure.out), !.at = "again"]
             ELSE [pure EXCEPT !.err = Exc("ValueError", FormatErrorMsg), !.at = "raised_again"]
  /\ UNCHANGED <<req, pc, self_dir, audio_format, output_dir, use_temp, info, title,
                 raised, exc, ret, resp, rid, cleanup, sent, fs, loop, calls, log>>

SpecNormalize == InitNormalize /\ [][NormalizeAudioFormat \/ NormalizeAgain]_vars

\* ------------------------------------------------------------ specifications
Workflow(p) ==
  \/ CoreNormalize(p) \/ CorePrepare(p) \/ CoreExtractInfo(p)
  \/ CoreDownload(p) \/ CoreGlob(p) \/ CoreExcept(p)

Http(p) ==
  \/ HttpMiddleware(p) \/ HttpEndpoint(p) \/ HttpExtractInfo(p) \/ HttpDownload(p)
  \/ HttpGlob(p) \/ HttpExcept(p) \/ HttpHandler(p) \/ HttpUnhandled(p)
  \/ HttpSendError(p) \/ HttpSendFile(p) \/ HttpBackground(p)
  \/ Health(p)

Next ==
  \E p \in Procs :
    \/ CliMain(p) \/ CliExit(p)
    \/ LibCall(p) \/ LibReturn(p)
    \/ McpExtractAudio(p) \/ McpExtractAudioToFile(p)
    \/ Workflow(p)
    \/ Http(p)

Spec == Init /\ [][Next]_vars

\* the callers that allocate a Workspace, running at the same time
NextConc ==
  \E p \in Procs :
    \/ LibCall(p) \/ LibReturn(p)
    \/ Workflow(p)
    \/ Http(p)

SpecConc == InitConc /\ [][NextConc]_vars

\* ------------------------------------------------------------------ claims
\* the Workflow call (or the HTTP endpoint's run of it) is over for its caller
Returned(p) ==
  pc[p] \in {"returned", "raised", "done", "h_handler", "h_send", "h_send_err", "h_background"}

\* output discovery found no file of the requested format in a Workspace
NotCreatedCase(p) ==
  /\ Ephemeral(p) /\ Returned(p)
  /\ raised[p].msg = NotCreatedMsg(audio_format[p])

\* C1 (as claimed): when output discovery finds no file of the requested
\* format in an ephemeral Workspace, the invocation fails with the "was not
\* created" error and the Workspace directory no longer exists once the call
\* has returned.
C1_NotCreatedWorkspaceGone ==
  \A p \in Procs :
    NotCreatedCase(p) =>
      /\ exc[p].msg = NotCreatedMsg(audio_format[p])
      /\ ~fs[output_dir[p]].exists

\* C1 (amended): in that case the invocation fails with the "was not created"
\* error and rmtree has run on the Workspace before the call returns: the
\* directory is gone unless rmtree itself failed, which is swallowed.
C1_NotCreatedWorkspaceCleaned ==
  \A p \in Procs :
    NotCreatedCase(p) =>
      /\ exc[p].msg = NotCreatedMsg(audio_format[p])
      /\ exc[p].type \in {"RuntimeError", "HTTPException"}
      /\ cleanup[p] \in {"removed", "failed"}
      /\ cleanup[p] = "removed" => ~fs[output_dir[p]].exists

C1_Witness ==
  \E p \in Procs :
    /\ NotCreatedCase(p) /\ CoreKind(p) /\ pc[p] = "done"
    /\ cleanup[p] = "removed" /\ ~fs[output_dir[p]].exists

\* the invocation has a Workspace it will still write into, scan or delete
UsesWorkspace(p) ==
  /\ Ephemeral(p)
  /\ pc[p] \in {"info", "download", "glob", "except",
                "h_info", "h_download", "h_glob", "h_except", "h_send", "h_background"}
  /\ ~(pc[p] = "except" /\ ~IsException(raised[p]))

\* C2: concurrent invocations never share an ephemeral Workspace: while an
\* invocation still uses its Workspace the directory exists, was created by
\* that invocation, holds only files that invocation wrote, and is not the
\* Workspace of any other invocation that still uses one.
C2_WorkspacesDisjoint ==
  \A p \in Procs :
    UsesWorkspace(p) =>
      /\ fs[output_dir[p]].exists
      /\ fs[output_dir[p]].owner = p
      /\ \A x \in fs[output_dir[p]].files : x.by = p
      /\ \A q \in Procs \ {p} : UsesWorkspace(q) => output_dir[q] # output_dir[p]

C2_Witness ==
  \E p, q \in Procs :
    /\ p # q
    /\ pc[p] = "glob" /\ pc[q] = "h_glob"
    /\ UsesWorkspace(p) /\ UsesWorkspace(q)
    /\ fs[output_dir[p]].files # {} /\ fs[output_dir[q]].files # {}

\* C3: every ephemeral Workspace is deleted once its invocation is over; here
\* for the invocations that succeeded: when such an invocation has finished,
\* its Workspace is gone, or at least its deletion was attempted and failed.
C3_SuccessWorkspaceDeleted ==
  \A p \in Procs :
    (pc[p] = "done" /\ Ephemeral(p) /\ raised[p] = NoExc) =>
      (~fs[output_dir[p]].exists \/ cleanup[p] = "failed")

\* an HTTP extraction that allocated its Workspace and then failed
HttpFailed(p) == HttpKind(p) /\ Ephemeral(p) /\ raised[p] # NoExc

\* the HTTP error response exists (built by the exception handler) or was sent
HttpErrorProduced(p) == pc[p] \in {"h_send_err", "done"} /\ resp[p].status # 200

\* the success half of C4: the Workspace and the file are there until the body
\* has been streamed, and the body reaches the caller whole
HttpStreamedBeforeDeletion(p) ==
  /\ (HttpKind(p) /\ pc[p] = "h_send") =>
       (fs[output_dir[p]].exists /\ PathExists(resp[p].path) /\ cleanup[p] = "none")
  /\ (HttpKind(p) /\ pc[p] \in {"h_background", "done"} /\ resp[p].status = 200) =>
       sent[p] = "full"
  /\ (HttpKind(p) /\ pc[p] = "h_background") => cleanup[p] = "none"

\* C4 (as claimed): in the HTTP front-end the Workspace of a successful
\* extraction is not deleted before the body is fully streamed, and the
\* Workspace of a failed extraction is deleted before the error response is
\* produced.
C4_HttpDeletionOrder ==
  \A p \in Procs :
    /\ HttpStreamedBeforeDeletion(p)
    /\ (HttpFailed(p) /\ HttpErrorProduced(p)) => ~fs[output_dir[p]].exists

\* C4 (amended): ... and for a failed extraction rmtree has run on the
\* Workspace before the error response is produced; the directory is gone
\* unless rmtree itself failed, which is swallowed.
C4_HttpCleanupOrder ==
  \A p \in Procs :
    /\ HttpStreamedBeforeDeletion(p)
    /\ (HttpFailed(p) /\ pc[p] \in {"h_handler", "h_send_err", "done"}) =>
         /\ cleanup[p] \in {"removed", "failed"}
         /\ cleanup[p] = "removed" => ~fs[output_dir[p]].exists

C4_Witness ==
  \E p \in Procs :
    /\ HttpKind(p) /\ pc[p] = "done" /\ resp[p].status = 200
    /\ sent[p] = "full" /\ cleanup[p] = "removed" /\ ~fs[output_dir[p]].exists

\* the Workflow of core.py raised to its caller after an error inside the try
CoreFailedInTry(p) == CoreKind(p) /\ pc[p] \in {"raised", "done"} /\ raised[p] # NoExc

Unclassified(e) == e.type \notin {"none", "ValueError", "RuntimeError"}

WrappedAndCleaned(p) ==
  /\ exc[p] = Exc("RuntimeError", "Failed to extract audio: " \o raised[p].msg)
  /\ use_temp[p] => cleanup[p] \in {"removed", "failed"}
  /\ ~use_temp[p] => (cleanup[p] = "none" /\ fs[output_dir[p]].exists)

C6_MetadataFailureIsExtraction ==
  \A p \in Procs :
    (CoreFailedInTry(p) /\ raised[p] \in ToolErrors("extract_info")) =>
      exc[p].type = "RuntimeError"

\* the failures of an HTTP extract request that the taxonomy classifies:
\* a bad format, a failure of the external tool, no output file
HttpClassified(p) ==
  \/ ~FormatAccepted(req[p].format)
  \/ req[p].url = BadUrl
  \/ raised[p] \in ToolErrors("extract_info") \cup ToolErrors("download")
  \/ raised[p].msg = NotCreatedMsg(audio_format[p])

\* C7: a failed HTTP extract request answers JSON {detail, request_id}, with
\* status 400 for a validation or extraction failure and 500 only otherwise.
C7_HttpErrorStatus ==
  \A p \in Procs :
    (HttpKind(p) /\ HttpErrorProduced(p)) =>
      /\ resp[p].keys = {"detail", "request_id"}
      /\ resp[p].status \in {400, 500}
      /\ HttpClassified(p) => resp[p].status = 400

McpKind(p) == req[p].kind \in {"mcp", "mcp_to_file"}

ErrorPrefix(e) ==
  IF e.type = "ValueError" THEN "Invalid input: "
  ELSE IF e.type = "RuntimeError" THEN "Extraction failed: "
  ELSE "Unexpected error: "

\* C8: a tool never raises: it ends with a result object in which success
\* comes with file_path and filename and without error, and failure comes
\* with an error that carries the prefix of the failure's class.
C8_McpNeverRaises ==
  \A p \in Procs :
    (McpKind(p) /\ pc[p] = "done") =>
      /\ resp[p].kind = "mcp"
      /\ resp[p].success <=> exc[p] = NoExc
      /\ resp[p].success =>
           /\ resp[p].keys = {"success", "file_path", "filename"}
           /\ resp[p].file_path # NoPath /\ resp[p].filename # <<>>
      /\ ~resp[p].success =>
           /\ resp[p].keys = {"success", "error"}
           /\ resp[p].error = ErrorPrefix(exc[p]) \o exc[p].msg

C8_Witness ==
  \E p \in Procs :
    /\ McpKind(p) /\ pc[p] = "done" /\ ~req[p].patched
    /\ ~resp[p].success /\ resp[p].error = "Unexpected error: " \o exc[p].msg

\* C9: with the real AudioExtractor, tool extract_audio called with an
\* unsupported format returns success false and the error
\* "Invalid input: Format must be either 'mp3' or 'wav'."
C9_McpInvalidFormat ==
  \A p \in Procs :
    (req[p].kind = "mcp" /\ ~req[p].patched /\ pc[p] = "done"
       /\ ~FormatAccepted(req[p].format)) =>
      /\ ~resp[p].success
      /\ resp[p].error = "Invalid input: " \o FormatErrorMsg

\* what C10 expects of the display file name of request r
ExpectedFilename(r) ==
  sanitize_filename(TitleOrDefault(InfoTitle(r.url))) \o <<".">> \o FormatCandidate(r.format)

Basename(path) == path.stem \o <<".">> \o path.ext

\* C11: extract_audio_to_file(url, output_file, format) returns, on success,
\* the basename of output_file, whatever title the metadata fetch returned.
C11_ToFileReturnsBasename ==
  \A p \in Procs :
    (CoreKind(p) /\ ~req[p].patched /\ req[p].output_path # NoPath /\ pc[p] = "returned") =>
      ret[p].filename = Basename(req[p].output_path)

\* the Workflow call made by the command returned a file
CliWorkflowSucceeded(p) == exc[p] = NoExc /\ ret[p] # NoRet

\* C12: the command ends with exit code 0 exactly when the Workflow call
\* succeeded, with 1 and a line "Error: <message>" on ValueError or RuntimeError,
\* with 130 on KeyboardInterrupt; it always ends with an exit code, never with
\* an exception.
C12_CliExitCodes ==
  \A p \in Procs :
    (req[p].kind = "cli" /\ pc[p] = "done") =>
      /\ resp[p].kind = "cli"
      /\ resp[p].exit_code \in {0, 1, 130}
      /\ resp[p].exit_code = 0 <=> CliWorkflowSucceeded(p)
      /\ exc[p].type \in {"ValueError", "RuntimeError"} =>
           /\ resp[p].exit_code = 1
           /\ resp[p].stderr = "Error: " \o exc[p].msg
      /\ exc[p].type = "KeyboardInterrupt" => resp[p].exit_code = 130

C12_Witness ==
  \E p \in Procs :
    /\ req[p].kind = "cli" /\ pc[p] = "done"
    /\ exc[p].type = "KeyboardInterrupt" /\ resp[p].exit_code = 130
    /\ raised[p] = Interrupt

\* the reference pipeline of C13, written over the positions of the input:
\* ch is the character a position contributes once whitespace became a space
RefChar(s, i) == IF s[i] \in Whitespace THEN " " ELSE s[i]

\* positions left by the trim of surrounding whitespace
RefTrimmed(s) ==
  {i \in DOMAIN s : /\ \E j \in DOMAIN s : j <= i /\ s[j] \notin Whitespace
                    /\ \E k \in DOMAIN s : k >= i /\ s[k] \notin Whitespace}

\* positions left when each whitespace run keeps its first character only
RefCollapsed(s) ==
  {i \in RefTrimmed(s) : s[i] \in Whitespace => (i = 1 \/ s[i - 1] \notin Whitespace)}

\* positions left when the characters outside the allowed classes are deleted
RefAllowed(s) == {i \in RefCollapsed(s) : RefChar(s, i) \in AllowedChars}

\* positions left by the trim of ' .-_' from both ends
RefCore(s) ==
  {i \in RefAllowed(s) :
     /\ \E j \in RefAllowed(s) : j <= i /\ RefChar(s, j) \notin {" ", ".", "-", "_"}
     /\ \E k \in RefAllowed(s) : k >= i /\ RefChar(s, k) \notin {" ", ".", "-", "_"}}

\* the characters of s at the positions I, in order
RefText(s, I) ==
  [n \in 1 .. Cardinality(I) |->
     RefChar(s, CHOOSE i \in I : Cardinality({j \in I : j < i}) = n - 1)]

RefPipeline(s) ==
  LET t == IF RefCore(s) = {} THEN <<"a","u","d","i","o">> ELSE RefText(s, RefCore(s))
  IN  [n \in 1 .. (IF Len(t) < 120 THEN Len(t) ELSE 120) |-> t[n]]

\* every character of s is whitespace, or disallowed, or one of ' .-_'
NothingSurvives(s) ==
  \A i \in DOMAIN s :
    s[i] \in Whitespace \cup {".", "-", "_"} \/ s[i] \notin AllowedChars

\* C13: sanitize_filename returns only ASCII letters, digits, space, hyphen,
\* underscore, period, parentheses and square brackets, between 1 and 120
\* characters; an input of which nothing survives gives 'audio'; the result is
\* that of the reference pipeline (truncation last, with no trim after it).
C13_SanitizeFilename ==
  (pure.fn = "sanitize_filename" /\ pure.at = "returned") =>
    /\ \A i \in DOMAIN pure.out : pure.out[i] \in AllowedChars
    /\ Len(pure.out) >= 1 /\ Len(pure.out) <= 120
    /\ NothingSurvives(pure.arg) => pure.out = <<"a","u","d","i","o">>
    /\ pure.out = RefPipeline(pure.arg)

\* a name cut at 120 characters whose last character is a space that stays
C13_Witness ==
  /\ pure.fn = "sanitize_filename" /\ pure.at = "returned"
  /\ Len(pure.arg) > 120
  /\ Len(pure.out) = 120 /\ pure.out[120] = " "

\* v is fmt written in any letter case with whitespace around it
IsVariant(v, fmt) ==
  \E i \in DOMAIN v :
    /\ i + Len(fmt) - 1 <= Len(v)
    /\ \A k \in DOMAIN fmt : LowerChar(v[i + k - 1]) = fmt[k]
    /\ \A k \in DOMAIN v : (k < i \/ k > i + Len(fmt) - 1) => v[k] \in Whitespace

\* C14: normalize_audio_format returns 'mp3' or 'wav', or fails with a
\* ValueError "Format must be either 'mp3' or 'wav'."; None and '' give 'mp3',
\* a case/whitespace variant of mp3 or wav gives that format, every other
\* value fails; normalizing the result again returns the same value.
C14_NormalizeAudioFormat ==
  (pure.fn = "normalize_audio_format" /\ pure.at # "call") =>
    /\ pure.at \in {"returned", "again", "raised"}
    /\ pure.at = "raised" =>
         /\ pure.err.type = "ValueError"
         /\ pure.err.msg = "Format must be either 'mp3' or 'wav'."
    /\ pure.at \in {"returned", "again"} =>
         pure.out \in {<<"m","p","3">>, <<"w","a","v">>}
    /\ pure.arg \in {None, <<>>} => (pure.at # "raised" /\ pure.out = <<"m","p","3">>)
    /\ \A fmt \in {<<"m","p","3">>, <<"w","a","v">>} :
         (pure.arg # None /\ IsVariant(pure.arg, fmt)) => (pure.at # "raised" /\ pure.out = fmt)
    /\ ( /\ pure.arg \notin {None, <<>>}
         /\ \A fmt \in {<<"m","p","3">>, <<"w","a","v">>} : ~IsVariant(pure.arg, fmt) )
         => pure.at = "raised"
    /\ pure.at = "again" => pure.again = pure.out

\* ' Wav\n' was normalized to 'wav', and 'wav' again to 'wav'
C14_Witness ==
  /\ pure.fn = "normalize_audio_format" /\ pure.at = "again"
  /\ pure.arg = <<" ","W","a","v","\n">>
  /\ pure.out = <<"w","a","v">> /\ pure.again = <<"w","a","v">>

\* the response of request p has left the service
Answered(p) == ServedKind(p) /\ sent[p] # "none"

\* C15: every HTTP response (file, HTTPException error, validation error,
\* unhandled-exception 500, health) carries an X-Request-Id header equal to
\* the caller's non-empty X-Request-Id, else to the id the server generated;
\* the request_id of an error body equals the header.
C15_RequestIdHeader ==
  \A p \in Procs :
    Answered(p) =>
      /\ resp[p].header # ""
      /\ req[p].request_id # "" => resp[p].header = req[p].request_id
      /\ req[p].request_id = "" => resp[p].header = rid[p]
      /\ "request_id" \in resp[p].keys => resp[p].request_id = resp[p].header

\* a 500 of unhandled_exception_handler answering a request that named its id
C15_Witness ==
  \E p \in Procs :
    /\ Answered(p) /\ req[p].request_id = "rid-7"
    /\ resp[p].status = 500 /\ resp[p].detail = "Internal server error"
    /\ resp[p].header = "rid-7" /\ resp[p].request_id = "rid-7"

\* the three calls of the Workflow, in the order of the source
Steps == <<"extract_info", "download", "glob">>

IsPrefix(s, t) == Len(s) <= Len(t) /\ \A i \in DOMAIN s : s[i] = t[i]

\* a step of invocation p has failed
StepFailed(p) == raised[p] # NoExc

\* C16: in one invocation the metadata fetch, the download and the output
\* discovery run in this order, each at most once, and once a step has failed
\* no further step runs.
C16_StepOrder ==
  /\ [](\A p \in Procs : IsPrefix(calls[p], Steps))
  /\ [][\A p \in Procs : StepFailed(p) => calls'[p] = calls[p]]_vars

\* the download failed after the metadata fetch and the invocation ended
\* without output discovery
C16_Witness ==
  \E p \in Procs :
    /\ pc[p] = "done" /\ raised[p].type = "DownloadError"
    /\ calls[p] = <<"extract_info", "download">>

\* an extract request is inside one of its blocking calls
InBlockingCall(p) == HttpKind(p) /\ pc[p] \in {"h_info", "h_download"}

\* C17: while an extract request is inside its blocking metadata fetch or
\* download, a health request that arrived can be taken up by the service and
\* answered: its next step does not have to wait for the blocking call.
C17_HealthNotBlocked ==
  \A p, q \in Procs :
    (InBlockingCall(p) /\ req[q].kind = "health") =>
      /\ pc[q] = "start" => ENABLED HttpMiddleware(q)
      /\ pc[q] = "endpoint" => ENABLED Health(q)

\* what a log event shows of a source URL beyond scheme, host, path and v
Leaks(e) ==
  \/ e.youtube_url.userinfo # ""
  \/ e.youtube_url.other # ""
  \/ e.youtube_url.fragment # ""

\* C18: no log event of an HTTP extract request shows more of the source URL
\* than scheme, host, path and the v parameter: no other query parameter, no
\* fragment, no user-info credentials.
C18_UrlRedactedInLogs ==
  \A p \in Procs : HttpKind(p) => \A e \in log[p] : ~Leaks(e)

\* the caller gave an explicit output path, or the extractor has a configured
\* output directory
Configured(p) ==
  /\ CoreKind(p) /\ ~req[p].patched
  /\ \/ req[p].output_path # NoPath
     \/ req[p].kind = "cli"
     \/ req[p].output_dir # NoDir

\* the directory the Workflow of a configured invocation works in
ConfiguredDir(p) ==
  IF req[p].output_path # NoPath THEN req[p].output_path.dir
  ELSE IF req[p].output_dir # NoDir THEN req[p].output_dir ELSE CwdDir

\* every directory stays, with every file name it holds
DirsPreserved ==
  \A d \in Dirs :
    fs[d].exists =>
      /\ fs'[d].exists
      /\ \A x \in fs[d].files : \E y \in fs'[d].files : y.stem = x.stem /\ y.ext = x.ext

\* C19: with an explicit output path or a configured output directory the
\* Workflow allocates no ephemeral Workspace and deletes nothing, on any
\* outcome: no step removes a directory or a file, no rmtree runs, and once
\* the directory was prepared it exists.
C19_ConfiguredDirKept ==
  /\ [](\A p \in Procs :
          Configured(p) =>
            /\ ~use_temp[p] /\ cleanup[p] = "none"
            /\ \A d \in TmpDirs : ~fs[d].exists
            /\ output_dir[p] # NoDir =>
                 (output_dir[p] = ConfiguredDir(p) /\ fs[output_dir[p]].exists))
  /\ [][(\E p \in Procs : Configured(p)) => DirsPreserved]_vars

\* the command failed in the current directory, which still holds its old file
C19_Witness ==
  \E p \in Procs :
    /\ Configured(p) /\ req[p].kind = "cli" /\ pc[p] = "done"
    /\ exc[p].type = "RuntimeError" /\ output_dir[p] = CwdDir
    /\ OldFile \in fs[CwdDir].files

\* C20: when the Workflow reports success the returned path is a file written
\* by this invocation's download, also in a directory that already held files
\* of the requested extension; so when the download wrote no such file, the
\* Workflow does not report success but 'was not created'.
C20_ReturnsOwnFile ==
  \A p \in Procs :
    (CoreKind(p) /\ ~req[p].patched /\ pc[p] = "returned") =>
      \E x \in fs[ret[p].path.dir].files :
        /\ x.stem = ret[p].path.stem /\ x.ext = ret[p].path.ext
        /\ x.by = p

\* the format of request p is none of: absent, empty, mp3 or wav in any
\* letter case with whitespace around
UnsupportedFormat(p) ==
  /\ req[p].format \notin {None, <<>>}
  /\ \A fmt \in {<<"m","p","3">>, <<"w","a","v">>} : ~IsVariant(req[p].format, fmt)

\* C21: a request with an unsupported format is rejected before any side
\* effect, in the core Workflow and in the HTTP endpoints: no Workspace and no
\* output directory is created (the file system stays as it was), and neither
\* the metadata fetch nor the download is called.
C21_RejectedBeforeSideEffects ==
  /\ [](\A p \in Procs :
          ((CoreKind(p) \/ HttpKind(p)) /\ ~req[p].patched /\ UnsupportedFormat(p)) =>
            /\ calls[p] = <<>>
            /\ output_dir[p] = NoDir /\ ~use_temp[p]
            /\ \A d \in Dirs \ {CwdDir} : ~fs[d].exists
            /\ pc[p] \notin {"prepare", "info", "download", "glob", "except", "returned",
                             "h_info", "h_download", "h_glob", "h_except", "h_send",
                             "h_background", "h_unhandled"})
  /\ [][(\E p \in Procs :
           (CoreKind(p) \/ HttpKind(p)) /\ ~req[p].patched /\ UnsupportedFormat(p))
          => fs' = fs]_vars

\* the library call with format 'ogg' and a configured directory that does not
\* exist yet ended with the validation error, the directory still absent
C21_Witness ==
  \E p \in Procs :
    /\ req[p].kind = "lib" /\ req[p].format = <<"o","g","g">> /\ req[p].output_dir = NewDir
    /\ pc[p] = "done" /\ exc[p] = Exc("ValueError", "Format must be either 'mp3' or 'wav'.")
    /\ ~fs[NewDir].exists

====
